---- MODULE Spec2Model ----
(***************************************************************************)
(* A model of l5r_cards/main.py: the deck mode (load_deck, then main's     *)
(* sorted id file) and the rename mode (rename_images).                    *)
(*                                                                         *)
(* Python strings are modelled as sequences of one-character strings, so   *)
(* that strip, split, startswith, concatenation, int() and the ordering    *)
(* used by sorted() are computed and not assumed.  Rules texts and image   *)
(* stems are sequences of tokens ("Unique", "</b>", "_upscaled", ...), on  *)
(* which the substring and suffix tests are computed the same way.         *)
(***************************************************************************)
EXTENDS Integers, Sequences, FiniteSets

(***************************************************************************)
(* Bounds of the model.                                                    *)
(***************************************************************************)
\* the longest deck file, in lines
MaxLines == 3

\* the most image files in the input directory
MaxImages == 3

(***************************************************************************)
(* Python string primitives.                                               *)
(***************************************************************************)
None == "None"

Digits == {"0", "1", "2", "3", "4", "5", "6", "7", "8", "9"}

\* str.isdigit on one character
isdigit(c) == c \in Digits

\* the characters str.strip removes
Whitespace == {" ", "\n"}

RECURSIVE lstrip(_)
lstrip(s) == IF s # <<>> /\ Head(s) \in Whitespace THEN lstrip(Tail(s)) ELSE s

RECURSIVE rstrip(_)
rstrip(s) ==
    IF s # <<>> /\ s[Len(s)] \in Whitespace
    THEN rstrip(SubSeq(s, 1, Len(s) - 1))
    ELSE s

\* str.strip
strip(s) == lstrip(rstrip(s))

\* str.startswith
startswith(s, p) == Len(s) >= Len(p) /\ SubSeq(s, 1, Len(p)) = p

\* str.endswith
endswith(s, p) == Len(s) >= Len(p) /\ SubSeq(s, Len(s) - Len(p) + 1, Len(s)) = p

\* str.removesuffix: the suffix is removed once
removesuffix(s, p) ==
    IF p # <<>> /\ endswith(s, p) THEN SubSeq(s, 1, Len(s) - Len(p)) ELSE s

\* `p in s` on strings: p occurs in s as a contiguous run
Contains(s, p) ==
    \E k \in 0..(Len(s) - Len(p)) : SubSeq(s, k + 1, k + Len(p)) = p

\* the positions of the separator " " in a line
SpaceAt(s) == {k \in 1..Len(s) : s[k] = " "}

FirstSpace(s) == CHOOSE k \in SpaceAt(s) : \A j \in SpaceAt(s) : k <= j

\* line.split(" ", 1): one part when the line holds no " ", else the text
\* before the first " " and everything after it
split1(s) ==
    IF SpaceAt(s) = {}
    THEN <<s>>
    ELSE <<SubSeq(s, 1, FirstSpace(s) - 1), SubSeq(s, FirstSpace(s) + 1, Len(s))>>

DigitValue(c) == CHOOSE n \in 0..9 : <<"0", "1", "2", "3", "4", "5", "6", "7", "8", "9">>[n + 1] = c

\* int(token) succeeds on a non-empty run of decimal digits
IntValid(tok) == tok # <<>> /\ \A k \in 1..Len(tok) : isdigit(tok[k])

RECURSIVE IntValue(_)
IntValue(tok) ==
    IF tok = <<>>
    THEN 0
    ELSE 10 * IntValue(SubSeq(tok, 1, Len(tok) - 1)) + DigitValue(tok[Len(tok)])

\* code points of the characters of the model, the order sorted() compares by
ord(c) ==
    CASE c = "\n" -> 10
      [] c = " " -> 32
      [] c = "(" -> 40
      [] c = ")" -> 41
      [] c = "-" -> 45
      [] c = "0" -> 48
      [] c = "1" -> 49
      [] c = "2" -> 50
      [] c = "3" -> 51
      [] c = "7" -> 55
      [] c = ":" -> 58
      [] c = "A" -> 65
      [] c = "B" -> 66
      [] c = "H" -> 72
      [] c = "K" -> 75
      [] c = "P" -> 80
      [] c = "S" -> 83
      [] c = "Z" -> 90
      [] c = "b" -> 98
      [] c = "x" -> 120
      [] OTHER -> 127

\* a <= b on Python strings: lexicographic by code point, a prefix first
RECURSIVE StrLeq(_, _)
StrLeq(a, b) ==
    IF a = <<>> THEN TRUE
    ELSE IF b = <<>> THEN FALSE
    ELSE IF Head(a) = Head(b) THEN StrLeq(Tail(a), Tail(b))
    ELSE ord(Head(a)) < ord(Head(b))

\* [x] * n
RECURSIVE Repeat(_, _)
Repeat(x, n) == IF n <= 0 THEN <<>> ELSE <<x>> \o Repeat(x, n - 1)

(***************************************************************************)
(* Module constants of main.py.                                            *)
(***************************************************************************)
UNIQUE_TYPES == {"event", "stronghold", "wind", "sensei"}

UNIQUE_KEYWORD == <<"Unique", "</b>">>

DYNASTY_TYPES == {"event", "holding", "personality", "celestial", "region", "wind"}

FATE_TYPES == {"spell", "strategy", "ancestor", "ring", "sensei", "follower", "item"}

STRONGHOLD_TYPES == {"stronghold"}

\* the header prefix load_deck skips
LEGALITY == <<"L", "e", "g", "a", "l", "i", "t", "y", ":">>

\* the suffixes of the two halves of a split card
HALF_1 == <<" ", "(", "1", ")">>

HALF_2 == <<" ", "(", "2", ")">>

(***************************************************************************)
(* The card records a database can hold: what load_xml_database stores     *)
(* per <card> element (id, name, type, the stems of its image paths, the   *)
(* rules text).                                                            *)
(***************************************************************************)
Card(id, name, type, text, images) ==
    [id |-> id, name |-> name, type |-> type, text |-> text, images |-> images]

AllCards ==
    { Card(<<"B", "2">>, <<"A">>, "strategy", <<"Battle">>, {<<"B", "2">>}),
      Card(<<"A", "1">>, <<"B">>, "event", <<"<b>", "Unique", "</b>", "Battle">>, {<<"A", "1">>}),
      Card(<<"A", "2">>, <<"C">>, "holding", <<"<b>", "Unique", "</b>">>, {<<"A", "2">>}),
      Card(<<"A", "3">>, <<"D", ":">>, "holding", <<"Battle">>, {<<"A", "3">>}),
      Card(<<"A", "4">>, <<"E">>, "personality", <<"Battle", "Unique">>, {<<"A", "4">>}),
      Card(<<"B", "1">>, <<"F">>, "sensei", <<"Battle">>, {<<"B", "1">>}),
      Card(<<"S", "1">>, <<"H", " ", "(", "1", ")">>, "stronghold", <<"Unique", "Battle">>, {<<"S", "1">>}),
      Card(<<"S", "1", "b">>, <<"H", " ", "(", "2", ")">>, "stronghold", <<"Battle">>, {<<"S", "1", "b">>}),
      Card(<<"K", "1">>, <<"K", " ", "(", "1", ")">>, "stronghold", <<"Battle">>, {<<"K", "1">>}),
      Card(<<"S", "2">>, <<"S">>, "stronghold", <<"Battle">>, {<<"S", "2">>}),
      Card(<<"P", "1">>, <<"P">>, "proxy", <<"Battle">>, {<<"P", "1">>}),
      Card(<<"P", "2">>, <<"Q">>, "proxy", <<"Unique", "Battle">>, {<<"P", "2">>}) }

\* card_dict[name] = {...}: the mapping load_xml_database returns for a
\* file holding the records cs, keyed by name
load_xml_database(cs) ==
    [n \in {c.name : c \in cs} |-> CHOOSE c \in cs : c.name = n]

\* the databases a run is given
Databases ==
    { load_xml_database(AllCards),
      load_xml_database({c \in AllCards : c.name # <<"H", " ", "(", "2", ")">>}),
      load_xml_database({c \in AllCards : c.name = <<"A">>}) }

\* the value standing for "no card" (cards.get found nothing)
NoCard == Card(<<>>, <<>>, None, <<>>, {})

\* cards.get(name)
get(cs, name) == IF name \in DOMAIN cs THEN cs[name] ELSE NoCard

(***************************************************************************)
(* The lines a deck file is made of.                                       *)
(***************************************************************************)
DeckLines ==
    { <<"2", " ", "A", "\n">>,
      <<"0", " ", "A", "\n">>,
      <<"B", "\n">>,
      <<"H", "\n">>,
      <<"3", " ", "H", "\n">>,
      <<"1", " ", "H", " ", "(", "1", ")", "\n">>,
      <<"2", "x", " ", "A", "\n">>,
      <<"7", "\n">>,
      <<"\n">>,
      LEGALITY \o <<" ", "A", "\n">>,
      <<"Z", "\n">>,
      <<"K", "\n">> }

RECURSIVE SeqsUpTo(_, _)
SeqsUpTo(S, n) ==
    IF n = 0
    THEN {<<>>}
    ELSE LET shorter == SeqsUpTo(S, n - 1)
         IN  shorter \cup {Append(s, x) : s \in shorter, x \in S}

DeckFiles == SeqsUpTo(DeckLines, MaxLines)

VARIABLES
    cards,            \* main: the database mapping, name -> card
    pc,               \* where the run is: "load_deck", "main", "rename_images", "done", "raised"
    err,              \* the exception that ended the run, "none" while there is none
    lines,            \* load_deck: the lines of the deck file
    i,                \* load_deck: the index of the line the loop is at
    deck,             \* load_deck: the list being built
    warnings,         \* the logger.warning records, in order
    main_deck,        \* main: the list load_deck returned
    output,           \* the content of the output file
    input_path,       \* rename_images: the image files under the input directory
    pending,          \* rename_images: the image files rglob has not yielded yet
    image_name,       \* rename_images: the lookup key of the current file
    card,             \* rename_images: the card of the current file
    card_number,      \* rename_images: its print count
    card_id,          \* rename_images: its effective id
    card_name,        \* rename_images: its display name
    orientation,      \* rename_images: "face" or "back"
    back,             \* rename_images: the back template chosen
    number_of_cards,  \* rename_images: the totals per category
    renamed           \* rename_images: the destination names logged, per file

deckVars == <<lines, i, deck, warnings, main_deck, output>>

renameVars ==
    <<input_path, pending, image_name, card, card_number, card_id, card_name, orientation,
      back, number_of_cards, renamed>>

vars == <<cards, pc, err, deckVars, renameVars>>

\* main has not received a list from load_deck
NoDeck == <<NoCard>>

\* the output file does not exist
NoFile == <<None>>

(***************************************************************************)
(* load_deck.  Each operator gives the outcome of one branch of the loop   *)
(* body as [deck, err, warnings]: the list after the line, the exception   *)
(* the line raises ("none" when it raises nothing) and what it logs.       *)
(***************************************************************************)
Outcome(d, e, w) == [deck |-> d, err |-> e, warnings |-> w]

\* blank line or "Legality:" header: continue
SkipLine(d) == Outcome(d, "none", <<>>)

\* InvalidLine without the try / except: the failed unpacking propagates
InvalidLine_Raise(d, line) == Outcome(d, "ValueError", <<>>)

\* except ValueError: the split gave one part; warn and continue
InvalidLine(d, line) == Outcome(d, "none", <<<<"Invalid line", line>>>>)

\* deck.extend([card] * int(number)); int raises ValueError on a bad token
ExactMatch(d, c, number) ==
    IF IntValid(number)
    THEN Outcome(d \o Repeat(c, IntValue(number)), "none", <<>>)
    ELSE Outcome(d, "invalid literal", <<>>)

\* SplitMatch extending by the first half alone
SplitMatch_FirstOnly(cs, d, c, name) ==
    IF name \o HALF_2 \in DOMAIN cs
    THEN Outcome(d \o <<c>>, "none", <<>>)
    ELSE Outcome(d, "KeyError", <<>>)

\* deck.extend([card, cards[name + " (2)"]]); the subscript raises KeyError
SplitMatch(cs, d, c, name) ==
    IF name \o HALF_2 \in DOMAIN cs
    THEN Outcome(d \o <<c, cs[name \o HALF_2]>>, "none", <<>>)
    ELSE Outcome(d, "KeyError", <<>>)

\* NotFound that warns and goes on to the next line instead of raising
NotFound_Skip(d, name) == Outcome(d, "none", <<<<"Card not found", name>>>>)

\* logger.warning("Card not found"); raise ValueError("Card not found: ...")
NotFound(d, name) == Outcome(d, "Card not found", <<<<"Card not found", name>>>>)

\* Resolve that takes a name ending in " (1)" for its base name first
Resolve_HalfAsBase(cs, d, number, name) ==
    LET base == IF endswith(name, HALF_1) THEN removesuffix(name, HALF_1) ELSE name
    IN  IF get(cs, base) # NoCard
        THEN ExactMatch(d, get(cs, base), number)
        ELSE IF get(cs, base \o HALF_1) # NoCard
             THEN SplitMatch(cs, d, get(cs, base \o HALF_1), base)
             ELSE NotFound(d, base)

\* the if / elif / else on cards.get(name) and cards.get(name + " (1)")
Resolve(cs, d, number, name) ==
    IF get(cs, name) # NoCard
    THEN ExactMatch(d, get(cs, name), number)
    ELSE IF get(cs, name \o HALF_1) # NoCard
         THEN SplitMatch(cs, d, get(cs, name \o HALF_1), name)
         ELSE NotFound(d, name)

\* one iteration of the for loop
LoadLine(cs, d, line) ==
    IF strip(line) = <<>> THEN SkipLine(d)
    ELSE IF startswith(line, LEGALITY) THEN SkipLine(d)
    ELSE IF ~isdigit(line[1]) THEN Resolve(cs, d, <<"1">>, strip(line))
    ELSE IF Len(split1(line)) # 2 THEN InvalidLine(d, line)
    ELSE Resolve(cs, d, split1(line)[1], strip(split1(line)[2]))

\* the whole loop, from the list d: the outcome of the first line that
\* raises, or the list after the last line
RECURSIVE LoadFrom(_, _, _)
LoadFrom(cs, d, ls) ==
    IF ls = <<>>
    THEN Outcome(d, "none", <<>>)
    ELSE LET o == LoadLine(cs, d, Head(ls))
         IN  IF o.err # "none"
             THEN o
             ELSE LET rest == LoadFrom(cs, o.deck, Tail(ls))
                  IN  Outcome(rest.deck, rest.err, o.warnings \o rest.warnings)

load_deck(ls, cs) == LoadFrom(cs, <<>>, ls)

\* sorted(...) on a list of strings
RECURSIVE Insert(_, _)
Insert(x, s) ==
    IF s = <<>> THEN <<x>>
    ELSE IF StrLeq(Head(s), x) THEN <<Head(s)>> \o Insert(x, Tail(s))
    ELSE <<x>> \o s

\* sorted(set(...)): the sort of the distinct ids
RECURSIVE sorted_set(_)
sorted_set(s) ==
    IF s = <<>> THEN <<>>
    ELSE LET rest == SubSeq(s, 1, Len(s) - 1)
         IN  IF \E k \in 1..Len(rest) : rest[k] = s[Len(s)]
             THEN sorted_set(rest)
             ELSE Insert(s[Len(s)], sorted_set(rest))

RECURSIVE sorted(_)
sorted(s) == IF s = <<>> THEN <<>> ELSE Insert(s[Len(s)], sorted(SubSeq(s, 1, Len(s) - 1)))

\* "\n".join(...)
RECURSIVE join(_)
join(s) ==
    IF s = <<>> THEN <<>>
    ELSE IF Len(s) = 1 THEN s[1]
    ELSE s[1] \o <<"\n">> \o join(Tail(s))

\* [card["id"] for card in deck]
Ids(d) == [k \in 1..Len(d) |-> d[k].id]

(***************************************************************************)
(* Deck mode: main calls load_deck, then writes the output file.           *)
(***************************************************************************)
\* rename_images before its first iteration: the totals are 0, nothing is
\* logged, the loop's locals are not bound yet
RenameLocalsUnbound ==
    /\ image_name = <<>>
    /\ card = NoCard
    /\ card_number = 0
    /\ card_id = <<>>
    /\ card_name = <<>>
    /\ orientation = None
    /\ back = "unbound"
    /\ number_of_cards = [dynasty |-> 0, fate |-> 0, stronghold |-> 0]
    /\ renamed = {}

RenameIdle == input_path = {} /\ pending = {} /\ RenameLocalsUnbound

Init ==
    /\ cards \in Databases
    /\ lines \in DeckFiles
    /\ pc = "load_deck"
    /\ err = "none"
    /\ i = 1
    /\ deck = <<>>
    /\ warnings = <<>>
    /\ main_deck = NoDeck
    /\ output = NoFile
    /\ RenameIdle

\* for line in lines: one iteration
LoadDeckLine ==
    /\ pc = "load_deck"
    /\ i <= Len(lines)
    /\ LET o == LoadLine(cards, deck, lines[i])
       IN  /\ deck' = o.deck
           /\ warnings' = warnings \o o.warnings
           /\ err' = o.err
           /\ pc' = IF o.err = "none" THEN "load_deck" ELSE "raised"
           /\ i' = IF o.err = "none" THEN i + 1 ELSE i
    /\ UNCHANGED <<cards, lines, main_deck, output, renameVars>>

\* return deck
LoadDeckReturn ==
    /\ pc = "load_deck"
    /\ i > Len(lines)
    /\ main_deck' = deck
    /\ pc' = "main"
    /\ UNCHANGED <<cards, err, lines, i, deck, warnings, output, renameVars>>

\* output.write_text("\n".join(sorted([card["id"] for card in deck])))
MainWrite ==
    /\ pc = "main"
    /\ output' = join(sorted(Ids(main_deck)))
    /\ pc' = "done"
    /\ UNCHANGED <<cards, err, lines, i, deck, warnings, main_deck, renameVars>>

Next == LoadDeckLine \/ LoadDeckReturn \/ MainWrite

Spec == Init /\ [][Next]_vars

(***************************************************************************)
(* Vocabulary of the deck-mode properties, stated on the deck file.        *)
(***************************************************************************)
\* the run is over
Ended == pc \in {"done", "raised"}

\* a line that starts with a digit and holds no " " to split at
Unsplittable(line) ==
    /\ strip(line) # <<>>
    /\ ~startswith(line, LEGALITY)
    /\ isdigit(line[1])
    /\ SpaceAt(line) = {}

\* a line that names a card: not blank, not a header, not unsplittable
IsContent(line) ==
    /\ strip(line) # <<>>
    /\ ~startswith(line, LEGALITY)
    /\ ~Unsplittable(line)

\* the count token of a content line that starts with a digit
CountToken(line) == SubSeq(line, 1, FirstSpace(line) - 1)

\* the trimmed name of a content line
NameOf(line) ==
    IF isdigit(line[1])
    THEN strip(SubSeq(line, FirstSpace(line) + 1, Len(line)))
    ELSE strip(line)

\* the count of a content line: the integer before the name, 1 without one
CountOf(line) == IF isdigit(line[1]) THEN IntValue(CountToken(line)) ELSE 1

HasExact(cs, line) == IsContent(line) /\ NameOf(line) \in DOMAIN cs

HasFirstHalf(cs, line) ==
    /\ IsContent(line)
    /\ NameOf(line) \notin DOMAIN cs
    /\ NameOf(line) \o HALF_1 \in DOMAIN cs

HasBothHalves(cs, line) ==
    HasFirstHalf(cs, line) /\ NameOf(line) \o HALF_2 \in DOMAIN cs

\* the name matches neither an exact key nor key name + " (1)"
Unresolved(cs, line) ==
    /\ IsContent(line)
    /\ NameOf(line) \notin DOMAIN cs
    /\ NameOf(line) \o HALF_1 \notin DOMAIN cs

\* a line that starts with a digit whose (count, name) cannot be parsed: no
\* separator, or a count token that is not a positive integer
Malformed(line) ==
    \/ Unsplittable(line)
    \/ /\ IsContent(line)
       /\ isdigit(line[1])
       /\ ~(IntValid(CountToken(line)) /\ IntValue(CountToken(line)) >= 1)

RemoveAt(s, k) == SubSeq(s, 1, k - 1) \o SubSeq(s, k + 1, Len(s))

\* the run ended as load_deck ends on the file ls
SameResultAs(ls) ==
    LET o == load_deck(ls, cards)
    IN  IF pc = "raised"
        THEN o.err = err
        ELSE o.err = "none" /\ o.deck = main_deck

\* what a line adds to the deck: count copies of an exact match, the two
\* halves of a split card once
Entries(cs, line) ==
    IF HasExact(cs, line) THEN Repeat(cs[NameOf(line)], CountOf(line))
    ELSE IF HasBothHalves(cs, line)
         THEN <<cs[NameOf(line) \o HALF_1], cs[NameOf(line) \o HALF_2]>>
         ELSE <<>>

RECURSIVE ExpectedDeck(_, _)
ExpectedDeck(cs, ls) ==
    IF ls = <<>> THEN <<>>
    ELSE ExpectedDeck(cs, SubSeq(ls, 1, Len(ls) - 1)) \o Entries(cs, ls[Len(ls)])

\* the sum of the counts of exact-match lines plus 2 for each split-card line
RECURSIVE ExpectedLength(_, _)
ExpectedLength(cs, ls) ==
    IF ls = <<>> THEN 0
    ELSE ExpectedLength(cs, Tail(ls))
         + (IF HasExact(cs, Head(ls)) THEN CountOf(Head(ls))
            ELSE IF HasBothHalves(cs, Head(ls)) THEN 2 ELSE 0)

\* how often x occurs in the sequence s
Occurrences(s, x) == Cardinality({k \in 1..Len(s) : s[k] = x})

\* the lines of a text, read back: the runs between "\n" characters
RECURSIVE TextLines(_)
TextLines(t) ==
    IF t = <<>> THEN <<>>
    ELSE IF \E k \in 1..Len(t) : t[k] = "\n"
         THEN LET k == CHOOSE j \in 1..Len(t) :
                           t[j] = "\n" /\ \A m \in 1..(j - 1) : t[m] # "\n"
              IN  <<SubSeq(t, 1, k - 1)>> \o TextLines(SubSeq(t, k + 1, Len(t)))
         ELSE <<t>>

IsSorted(s) == \A k \in 1..(Len(s) - 1) : StrLeq(s[k], s[k + 1])

LINE_1_HIDDEN_1 == <<"1", " ", "H", " ", "(", "1", ")", "\n">>

LINE_HIDDEN == <<"H", "\n">>

HIDDEN_1 == <<"H", " ", "(", "1", ")">>

HIDDEN_2 == <<"H", " ", "(", "2", ")">>

(***************************************************************************)
(* C1.  Deck mode is all-or-nothing.                                       *)
(***************************************************************************)
\* C1 as stated: whenever some content line's trimmed name matches neither
\* an exact key nor name + " (1)", the run ends with the card-not-found
\* error, main receives no deck and the output file is never written.
C1_Original ==
    (\E k \in 1..Len(lines) : Unresolved(cards, lines[k]))
        => /\ main_deck = NoDeck
           /\ output = NoFile
           /\ Ended => (pc = "raised" /\ err = "Card not found")

\* C1 amended: when some content line's name matches neither key, load_deck
\* never returns a deck and the output file is never written; the error is
\* the card-not-found error when the line the run failed at is such a line
\* (an earlier line may fail first with another error); a run that raised
\* has returned no deck and written nothing, so the output file exists only
\* when every line resolved.
C1_AllOrNothing ==
    /\ (\E k \in 1..Len(lines) : Unresolved(cards, lines[k]))
          => /\ main_deck = NoDeck
             /\ output = NoFile
             /\ pc \in {"load_deck", "raised"}
             /\ i <= Len(lines)
             /\ \A k \in 1..(i - 1) : ~Unresolved(cards, lines[k])
    /\ (pc = "raised" /\ Unresolved(cards, lines[i])) => err = "Card not found"
    /\ pc = "raised" => (err # "none" /\ main_deck = NoDeck /\ output = NoFile)
    /\ output # NoFile =>
          \A k \in 1..Len(lines) :
              IsContent(lines[k]) =>
                  HasExact(cards, lines[k]) \/ HasBothHalves(cards, lines[k])

\* a run that had a partial list when an unknown name aborted it
C1_Witness ==
    /\ pc = "raised"
    /\ err = "Card not found"
    /\ Unresolved(cards, lines[i])
    /\ i > 1
    /\ deck # <<>>
    /\ main_deck = NoDeck
    /\ output = NoFile

(***************************************************************************)
(* C2.  A first half without its second half.                              *)
(***************************************************************************)
\* C2: a run that fails at a line whose name has no exact key, whose
\* name + " (1)" exists and whose name + " (2)" does not, fails with the
\* MissingSecondHalf error, and no deck list is produced.
C2_MissingSecondHalf ==
    (/\ pc = "raised"
     /\ HasFirstHalf(cards, lines[i])
     /\ ~HasBothHalves(cards, lines[i]))
        => (err = "MissingSecondHalf" /\ main_deck = NoDeck)

(***************************************************************************)
(* C3.  The output file is the sorted ids, duplicates kept.                *)
(***************************************************************************)
\* C3: once the file is written, its lines are in lexicographic order and
\* every id occurs in it exactly as often as the deck lines ask for it: n
\* times for a line "n Name" with an exact match, added up over the lines.
C3_SortedIds ==
    pc = "done" =>
        /\ IsSorted(TextLines(output))
        /\ Len(TextLines(output)) = ExpectedLength(cards, lines)
        /\ \A c \in AllCards :
              Occurrences(TextLines(output), c.id)
                  = Occurrences(Ids(ExpectedDeck(cards, lines)), c.id)

\* a deck whose ids repeat and are not in order before the sort
C3_Witness ==
    /\ pc = "done"
    /\ ~IsSorted(Ids(main_deck))
    /\ \E c \in AllCards : Occurrences(TextLines(output), c.id) >= 2
    /\ \E k \in 1..Len(lines) : HasExact(cards, lines[k]) /\ CountOf(lines[k]) = 2

(***************************************************************************)
(* C4.  The line "1 Hidden School (1)".                                    *)
(***************************************************************************)
\* C4 as stated: with both halves in the database, the deck made of the
\* line "1 H (1)" holds the ids of both halves.
C4_Original ==
    (/\ pc \in {"main", "done"}
     /\ lines = <<LINE_1_HIDDEN_1>>
     /\ HIDDEN_1 \in DOMAIN cards
     /\ HIDDEN_2 \in DOMAIN cards)
        => Ids(main_deck) = <<cards[HIDDEN_1].id, cards[HIDDEN_2].id>>

\* C4 amended: with both halves in the database, the line "1 H (1)" is an
\* exact match and appends the record of the first half alone, once; it is
\* the base-name line "H" that falls through to the split-card rule and
\* appends both halves.
C4_ExactMatchWins ==
    [][(/\ pc = "load_deck"
        /\ i <= Len(lines)
        /\ HIDDEN_1 \in DOMAIN cards
        /\ HIDDEN_2 \in DOMAIN cards)
          => /\ lines[i] = LINE_1_HIDDEN_1
                  => (deck' = Append(deck, cards[HIDDEN_1]) /\ err' = "none")
             /\ lines[i] = LINE_HIDDEN
                  => (deck' = deck \o <<cards[HIDDEN_1], cards[HIDDEN_2]>>
                      /\ err' = "none")]_vars

\* the line "1 H (1)" has been read and the file written
C4_Witness ==
    /\ pc = "done"
    /\ HIDDEN_2 \in DOMAIN cards
    /\ \E k \in 1..Len(lines) : lines[k] = LINE_1_HIDDEN_1
    /\ \A k \in 1..Len(lines) : lines[k] # LINE_HIDDEN
    /\ Occurrences(Ids(main_deck), cards[HIDDEN_1].id) >= 1
    /\ Occurrences(Ids(main_deck), cards[HIDDEN_2].id) = 0

(***************************************************************************)
(* C5.  Malformed deck lines.                                              *)
(***************************************************************************)
\* C5 as stated: a line that starts with a digit and has no separator, or
\* whose count token is not a positive integer, never aborts the run, and
\* the run ends as it does on the file without that line.
C5_Original ==
    Ended =>
        \A k \in 1..Len(lines) :
            Malformed(lines[k])
                => /\ ~(pc = "raised" /\ i = k)
                   /\ SameResultAs(RemoveAt(lines, k))

\* C5 amended: a line that starts with a digit and holds no " " is logged
\* as invalid and skipped: it never aborts the run, and the run ends as it
\* does on the file without that line.
C5_SkipsUnsplittable ==
    /\ Ended =>
          \A k \in 1..Len(lines) :
              Unsplittable(lines[k])
                  => /\ ~(pc = "raised" /\ i = k)
                     /\ SameResultAs(RemoveAt(lines, k))
    /\ \A k \in 1..Len(lines) :
          (Unsplittable(lines[k]) /\ (k < i \/ pc \in {"main", "done"}))
              => \E w \in 1..Len(warnings) : warnings[w] = <<"Invalid line", lines[k]>>

\* an unsplittable line between two lines that resolved
C5_Witness ==
    /\ pc = "done"
    /\ Len(lines) = 3
    /\ Unsplittable(lines[2])
    /\ HasExact(cards, lines[1]) /\ CountOf(lines[1]) >= 1
    /\ HasBothHalves(cards, lines[3])
    /\ Len(main_deck) >= 3

(***************************************************************************)
(* C10.  A split card is appended once, whatever its count.                *)
(***************************************************************************)
\* C10: the list built so far is, line by line and in line order, count
\* copies of each exact match and the two halves (first, then second) of
\* each split card once, whatever the count of its line; the length of the
\* returned deck is the sum of the counts of the exact-match lines plus 2
\* for each split-card line.
C10_SplitAppendsOnce ==
    /\ pc = "load_deck" => deck = ExpectedDeck(cards, SubSeq(lines, 1, i - 1))
    /\ pc \in {"main", "done"} =>
          /\ main_deck = ExpectedDeck(cards, lines)
          /\ Len(main_deck) = ExpectedLength(cards, lines)

\* a returned deck with a split card asked for three times
C10_Witness ==
    /\ pc = "main"
    /\ \E k \in 1..Len(lines) :
          /\ HasBothHalves(cards, lines[k])
          /\ isdigit(lines[k][1])
          /\ CountOf(lines[k]) = 3
    /\ \E k \in 1..Len(lines) : HasExact(cards, lines[k]) /\ CountOf(lines[k]) = 2
    /\ Len(main_deck) = 4

(***************************************************************************)
(* rename_images.                                                          *)
(***************************************************************************)
\* the stems of the *.jpg files the input directory can hold: one per card
\* image, upscaled copies, and files of no card
ImageStems ==
    {c.id : c \in AllCards}
        \cup { <<"B", "2", "_upscaled">>,
               <<"A", "3", "_upscaled">>,
               <<"B", "2", "_upscaled", "_upscaled">>,
               <<"Z", "9">> }

\* what the operator can type at the input() prompt
Answers == {<<"1">>, <<"2">>, <<"3">>, <<"y">>}

\* card_images: image stem -> card, over every image of every card
card_images(cs) ==
    LET all == {cs[n] : n \in DOMAIN cs}
    IN  [st \in UNION {c.images : c \in all} |-> CHOOSE c \in all : st \in c.images]

\* image.with_stem(image.stem.removesuffix("_upscaled")).stem
ImageName(image) == removesuffix(image, <<"_upscaled">>)

\* PrintCount with the test for a bare "Unique" ahead of the test for the
\* bold-closed marker
PrintCount_BareFirst(c, answer) ==
    IF c.type \in UNIQUE_TYPES THEN [err |-> "none", value |-> 1]
    ELSE IF Contains(c.text, <<"Unique">>)
         THEN IF IntValid(answer)
              THEN [err |-> "none", value |-> IntValue(answer)]
              ELSE [err |-> "invalid literal", value |-> 0]
    ELSE IF Contains(c.text, UNIQUE_KEYWORD) THEN [err |-> "none", value |-> 1]
    ELSE [err |-> "none", value |-> 3]

\* the if / else that sets card_number; the bare "Unique" case is
\* int(input(...)), which raises ValueError on an answer that is no integer
PrintCount(c, answer) ==
    IF c.type \in UNIQUE_TYPES THEN [err |-> "none", value |-> 1]
    ELSE IF Contains(c.text, UNIQUE_KEYWORD) THEN [err |-> "none", value |-> 1]
    ELSE IF Contains(c.text, <<"Unique">>)
         THEN IF IntValid(answer)
              THEN [err |-> "none", value |-> IntValue(answer)]
              ELSE [err |-> "invalid literal", value |-> 0]
    ELSE [err |-> "none", value |-> 3]

\* Category with the final else taken for a fate card instead of raising
Category_DefaultFate(c) ==
    IF c.type \in DYNASTY_TYPES THEN "dynasty"
    ELSE IF c.type \in STRONGHOLD_TYPES THEN "stronghold"
    ELSE "fate"

\* the branch of the if / elif / elif / else on card["type"]
Category(c) ==
    IF c.type \in DYNASTY_TYPES THEN "dynasty"
    ELSE IF c.type \in FATE_TYPES THEN "fate"
    ELSE IF c.type \in STRONGHOLD_TYPES THEN "stronghold"
    ELSE "unknown"

\* STRONGHOLD_NAME_PATTERN.match(name): the places where " (<digit>)" can
\* end a non-empty run of characters other than a newline that starts the
\* name
PatternMatches(name) ==
    {p \in 2..(Len(name) - 3) :
        /\ name[p] = " "
        /\ name[p + 1] = "("
        /\ isdigit(name[p + 2])
        /\ name[p + 3] = ")"
        /\ \A k \in 1..(p - 1) : name[k] # "\n"}

\* .group(1) of the match: (.+) is greedy, it runs to the last such place
Group1(name) ==
    LET p == CHOOSE q \in PatternMatches(name) : \A r \in PatternMatches(name) : r <= q
    IN  SubSeq(name, 1, p - 1)

\* STRONGHOLD_NAME_PATTERN.match(card_name).group(1): match() returns None
\* on a name that does not match, and None has no attribute group; on a
\* match group 1 always took part, so the test `is None` is never true and
\* "Invalid stronghold name" is never raised
StrongholdGroup(name) ==
    IF PatternMatches(name) = {}
    THEN [err |-> "AttributeError", group |-> <<>>]
    ELSE [err |-> "none", group |-> Group1(name)]

\* number_of_cards[category] += card_number
Tally(totals, category, n) == [totals EXCEPT ![category] = @ + n]

\* TallyStronghold that counts back images too
TallyStronghold_CountsBack(totals, id, n) ==
    [totals EXCEPT !["stronghold"] = @ + n]

\* the stronghold totals after a stronghold image: a back adds nothing
TallyStronghold(totals, id, n) ==
    IF endswith(id, <<"b">>) THEN totals ELSE Tally(totals, "stronghold", n)

UnsafeChars == {":", "/", "\"", "?", "*", "<", ">", "|", "\\"}

\* sanitize_name
sanitize_name(name) ==
    [k \in 1..Len(name) |-> IF name[k] \in UnsafeChars THEN "-" ELSE name[k]]

\* sanitize_name(f"{card_id} - {card_name}[{orientation},{card_number}].jpg"),
\* kept by its fields: the other pieces of the name hold no unsafe character
NewName(id, name, orient, n) ==
    [id |-> sanitize_name(id), name |-> sanitize_name(name),
     orientation |-> orient, number |-> n]

\* the names logged for one image ("Renaming", and "Copying" when there is
\* a back template)
LogEntry(image, id, name, orient, n, bk) ==
    [image |-> image,
     new_name |-> NewName(id, name, orient, n),
     back |-> bk,
     new_back_name |-> IF bk = None THEN <<>> ELSE <<NewName(id, name, "back", n)>>]

\* one iteration of the for loop on a file whose card is c, from the totals
\* t: the locals and totals after it, the exception it raises, what it logs
Iteration(c, answer, image, t, old) ==
    LET n   == PrintCount(c, answer)
        cat == Category(c)
        g   == StrongholdGroup(c.name)
        isBack == endswith(c.id, <<"b">>)
    IN  IF n.err # "none"
        THEN [old EXCEPT !.err = n.err]
        ELSE IF cat = "unknown"
        THEN [old EXCEPT !.err = "Unknown card type", !.card_number = n.value,
                         !.card_id = c.id, !.card_name = c.name,
                         !.orientation = "face"]
        ELSE IF cat = "stronghold" /\ g.err # "none"
        THEN [old EXCEPT !.err = g.err, !.card_number = n.value,
                         !.card_id = c.id, !.card_name = c.name,
                         !.orientation = "face", !.back = None]
        ELSE LET id == IF cat = "stronghold" /\ isBack
                       THEN removesuffix(c.id, <<"b">>) ELSE c.id
                 nm == IF cat = "stronghold" THEN g.group ELSE c.name
                 o  == IF cat = "stronghold" /\ isBack THEN "back" ELSE "face"
                 bk == IF cat = "dynasty" THEN "back_dynasty"
                       ELSE IF cat = "fate" THEN "back_fate" ELSE None
             IN  [err |-> "none", card_number |-> n.value, card_id |-> id,
                  card_name |-> nm, orientation |-> o, back |-> bk,
                  number_of_cards |->
                      IF cat = "stronghold"
                      THEN TallyStronghold(t, c.id, n.value)
                      ELSE Tally(t, cat, n.value),
                  renamed |-> old.renamed \cup {LogEntry(image, id, nm, o, n.value, bk)}]

\* the locals, totals and log as a record, for Iteration
Locals ==
    [err |-> err, card_number |-> card_number, card_id |-> card_id,
     card_name |-> card_name, orientation |-> orientation, back |-> back,
     number_of_cards |-> number_of_cards, renamed |-> renamed]

InitRename ==
    /\ cards = load_xml_database(AllCards)
    /\ input_path \in {S \in SUBSET ImageStems : Cardinality(S) <= MaxImages}
    /\ pending = input_path
    /\ pc = "rename_images"
    /\ err = "none"
    /\ RenameLocalsUnbound
    /\ lines = <<>>
    /\ i = 1
    /\ deck = <<>>
    /\ warnings = <<>>
    /\ main_deck = NoDeck
    /\ output = NoFile

\* for image in input_path.rglob("*.jpg"): a file of no card is logged and
\* skipped
RenameSkip ==
    /\ pc = "rename_images"
    /\ \E image \in pending :
          /\ ImageName(image) \notin DOMAIN card_images(cards)
          /\ pending' = pending \ {image}
          /\ image_name' = ImageName(image)
          /\ card' = NoCard
          /\ warnings' = Append(warnings, <<"Card not found for", ImageName(image)>>)
    /\ UNCHANGED <<cards, pc, err, lines, i, deck, main_deck, output, input_path,
                   card_number, card_id, card_name, orientation, back,
                   number_of_cards, renamed>>

\* for image in input_path.rglob("*.jpg"): a file of a card
RenameImage ==
    /\ pc = "rename_images"
    /\ \E image \in pending, answer \in Answers :
          /\ ImageName(image) \in DOMAIN card_images(cards)
          /\ LET c == card_images(cards)[ImageName(image)]
                 r == Iteration(c, answer, image, number_of_cards, Locals)
             IN  /\ pending' = pending \ {image}
                 /\ image_name' = ImageName(image)
                 /\ card' = c
                 /\ err' = r.err
                 /\ pc' = IF r.err = "none" THEN "rename_images" ELSE "raised"
                 /\ card_number' = r.card_number
                 /\ card_id' = r.card_id
                 /\ card_name' = r.card_name
                 /\ orientation' = r.orientation
                 /\ back' = r.back
                 /\ number_of_cards' = r.number_of_cards
                 /\ renamed' = r.renamed
    /\ UNCHANGED <<cards, lines, i, deck, warnings, main_deck, output, input_path>>

\* logger.info("Number of cards: %s", number_of_cards), after the last file
RenameReport ==
    /\ pc = "rename_images"
    /\ pending = {}
    /\ pc' = "done"
    /\ UNCHANGED <<cards, err, deckVars, renameVars>>

NextRename == RenameSkip \/ RenameImage \/ RenameReport

SpecRename == InitRename /\ [][NextRename]_vars

(***************************************************************************)
(* Vocabulary of the rename-mode properties.                               *)
(***************************************************************************)
\* the file's stem, "_upscaled" stripped, is in the reverse index
Matched(image) ==
    \E c \in AllCards :
        c.name \in DOMAIN cards /\ (image \in c.images \/ image \in {st \o <<"_upscaled">> : st \in c.images})

\* the card of a matched file
CardOf(image) ==
    CHOOSE c \in AllCards :
        image \in c.images \/ image \in {st \o <<"_upscaled">> : st \in c.images}

\* the sum of the print counts in the destination names of a set of entries
RECURSIVE SumOfPrintCounts(_)
SumOfPrintCounts(S) ==
    IF S = {} THEN 0
    ELSE LET e == CHOOSE x \in S : TRUE
         IN  e.new_name.number + SumOfPrintCounts(S \ {e})

\* the text holds the bold-closed marker Unique</b>
HasMarker(text) ==
    \E k \in 1..(Len(text) - 1) : text[k] = "Unique" /\ text[k + 1] = "</b>"

\* the text holds "Unique" somewhere
HasUnique(text) == \E k \in 1..Len(text) : text[k] = "Unique"

\* the name reads <base> (<digit>)
IsHalfName(name) ==
    /\ Len(name) >= 5
    /\ name[Len(name) - 3] = " "
    /\ name[Len(name) - 2] = "("
    /\ name[Len(name) - 1] \in Digits
    /\ name[Len(name)] = ")"

\* the loop has just handled a file of a card
HandledCard == pending' # pending /\ card' # NoCard

(***************************************************************************)
(* C6.  Stronghold images.                                                 *)
(***************************************************************************)
\* C6: after a matched image of a stronghold card the print count is 1; if
\* the card's name does not read "<base> (<digit>)" the run has failed with
\* the "Invalid stronghold name" error and no other; if it does, the
\* display name is the base.
C6_StrongholdName ==
    (card # NoCard /\ card.type = "stronghold")
        => /\ card_number = 1
           /\ ~IsHalfName(card.name)
                 => (pc = "raised" /\ err = "Invalid stronghold name")
           /\ IsHalfName(card.name)
                 => (err = "none"
                     /\ card_name = SubSeq(card.name, 1, Len(card.name) - 4))

(***************************************************************************)
(* C7.  Print counts.                                                      *)
(***************************************************************************)
\* C7: the print count computed for a matched card is 1 if its text holds
\* the marker Unique</b>, whatever its type; 1 if its type is event,
\* stronghold, wind or sensei; 3 if its type is none of these and its text
\* holds no "Unique" at all; so in these cases never another value.
C7_PrintCount ==
    card # NoCard
        => /\ HasMarker(card.text) => card_number = 1
           /\ card.type \in {"event", "stronghold", "wind", "sensei"} => card_number = 1
           /\ (card.type \notin {"event", "stronghold", "wind", "sensei"}
               /\ ~HasUnique(card.text)) => card_number = 3
           /\ \A e \in renamed :
                 LET c == CardOf(e.image)
                 IN  /\ (HasMarker(c.text)
                         \/ c.type \in {"event", "stronghold", "wind", "sensei"})
                           => e.new_name.number = 1
                     /\ (c.type \notin {"event", "stronghold", "wind", "sensei"}
                         /\ ~HasUnique(c.text)) => e.new_name.number = 3

\* the marker on a card of a non-unique type gave 1, after a plain card of
\* a non-unique type gave 3
C7_Witness ==
    /\ card # NoCard
    /\ card.type = "holding"
    /\ HasMarker(card.text)
    /\ card_number = 1
    /\ \E e \in renamed :
          /\ CardOf(e.image).type \notin UNIQUE_TYPES
          /\ ~HasUnique(CardOf(e.image).text)
          /\ e.new_name.number = 3

(***************************************************************************)
(* C8.  The totals of a rename run.                                        *)
(***************************************************************************)
\* C8: in a run that has not failed, whatever the order of the files, each
\* total is the sum of the print counts of the images handled so far in its
\* category (for stronghold: of those whose id does not end in "b"); a file
\* of no card changes nothing and never stops the run; the completed run
\* has handled every matched file of the directory once.
C8_TotalsAreSums ==
    /\ pc \in {"rename_images", "done"} =>
          /\ err = "none"
          /\ {e.image : e \in renamed} = {im \in input_path \ pending : Matched(im)}
          /\ Cardinality(renamed) = Cardinality({e.image : e \in renamed})
          /\ number_of_cards.dynasty =
                SumOfPrintCounts({e \in renamed :
                    CardOf(e.image).type \in
                        {"event", "holding", "personality", "celestial", "region", "wind"}})
          /\ number_of_cards.fate =
                SumOfPrintCounts({e \in renamed :
                    CardOf(e.image).type \in
                        {"spell", "strategy", "ancestor", "ring", "sensei", "follower", "item"}})
          /\ number_of_cards.stronghold =
                SumOfPrintCounts({e \in renamed :
                    /\ CardOf(e.image).type = "stronghold"
                    /\ CardOf(e.image).id[Len(CardOf(e.image).id)] # "b"})
    /\ pc = "done" => pending = {}
    /\ pc = "raised" => card # NoCard

\* a completed run over a file of no card, a stronghold back and a card
\* that counts
C8_Witness ==
    /\ pc = "done"
    /\ \E im \in input_path : ~Matched(im)
    /\ \E e \in renamed : e.new_name.orientation = "back"
    /\ number_of_cards.dynasty + number_of_cards.fate >= 3
    /\ number_of_cards.stronghold = 0

(***************************************************************************)
(* C9.  Categories.                                                        *)
(***************************************************************************)
\* C9 as stated: every matched card of a dynasty type that is counted is
\* counted as dynasty only, of a fate type as fate only, of type stronghold
\* as stronghold only, and a card of any other type makes the run fail with
\* the unknown card type error before it adds to a total or gets a
\* destination name.
C9_Original ==
    [][HandledCard =>
        LET t == card'.type
            dyn == {"event", "holding", "personality", "celestial", "region", "wind"}
            fat == {"spell", "strategy", "ancestor", "ring", "sensei", "follower", "item"}
        IN  /\ (t \in dyn /\ err' = "none") =>
                 /\ number_of_cards' =
                       [number_of_cards EXCEPT !.dynasty = @ + card_number']
                 /\ back' = "back_dynasty"
            /\ (t \in fat /\ err' = "none") =>
                 /\ number_of_cards' =
                       [number_of_cards EXCEPT !.fate = @ + card_number']
                 /\ back' = "back_fate"
            /\ t = "stronghold" =>
                 /\ number_of_cards'.dynasty = number_of_cards.dynasty
                 /\ number_of_cards'.fate = number_of_cards.fate
                 /\ back' = None
            /\ t \notin dyn \cup fat \cup {"stronghold"} =>
                 /\ pc' = "raised"
                 /\ err' = "Unknown card type"
                 /\ number_of_cards' = number_of_cards
                 /\ renamed' = renamed]_vars

\* C9 amended: the same, but a card of any other type makes the run fail
\* with the unknown card type error or, when its text holds a bare "Unique"
\* and the answer to the print-count prompt is no integer, with the error
\* of that conversion; either way before the card adds to a total or gets a
\* destination name, as does every iteration that raises.
C9_Categories ==
    [][HandledCard =>
        LET t == card'.type
            dyn == {"event", "holding", "personality", "celestial", "region", "wind"}
            fat == {"spell", "strategy", "ancestor", "ring", "sensei", "follower", "item"}
        IN  /\ (t \in dyn /\ err' = "none") =>
                 /\ number_of_cards' =
                       [number_of_cards EXCEPT !.dynasty = @ + card_number']
                 /\ back' = "back_dynasty"
            /\ (t \in fat /\ err' = "none") =>
                 /\ number_of_cards' =
                       [number_of_cards EXCEPT !.fate = @ + card_number']
                 /\ back' = "back_fate"
            /\ t = "stronghold" =>
                 /\ number_of_cards'.dynasty = number_of_cards.dynasty
                 /\ number_of_cards'.fate = number_of_cards.fate
                 /\ back' = None
            /\ t \notin dyn \cup fat \cup {"stronghold"} =>
                 /\ pc' = "raised"
                 /\ \/ err' = "Unknown card type"
                    \/ /\ err' = "invalid literal"
                       /\ HasUnique(card'.text)
                       /\ ~HasMarker(card'.text)
            /\ err' # "none" =>
                 /\ pc' = "raised"
                 /\ number_of_cards' = number_of_cards
                 /\ renamed' = renamed]_vars

\* a card of an unknown type stopped a run that had counted other cards
C9_Witness ==
    /\ pc = "raised"
    /\ err = "Unknown card type"
    /\ card.type = "proxy"
    /\ number_of_cards.dynasty > 0
    /\ number_of_cards.fate > 0
    /\ \A e \in renamed : CardOf(e.image).type # "proxy"

====
